---- MODULE Spec2Model ----
(***************************************************************************)
(* Device aggregation and merge model of shinysdr/devices.py.              *)
(*                                                                         *)
(* Objects of the program (drivers, components, VFO cells) are named by    *)
(* strings, Device objects by small integers.  The state is the heap of    *)
(* Device objects, the heap of cells, the state of every transmit driver,  *)
(* and a record of what the last operation did (the calls it made on       *)
(* drivers and components, how often it invoked the caller's hook, what    *)
(* it returned or raised).                                                 *)
(***************************************************************************)
EXTENDS Integers, Sequences, FiniteSets, TLC

VARIABLES
    devices,     \* Device objects: id -> [name, rx_driver, tx_driver, vfo_cell, components, transmitting]
    cells,       \* VFO cells: id -> [kind, value, lo, hi, writable, persists, base, shift]
    txState,     \* per transmit driver: the value of the last set_transmitting call on it
    built,       \* per Device: the drivers it was constructed with
    closed,      \* Devices whose close() has returned
    closeCalls,  \* per Device: how often it called close() on its rx / tx driver
    lastOp,      \* the last operation and what it did
    faulty,      \* whether a transmit driver's set_transmitting may raise
    vfoList,     \* the list of cells handed to _merge_vfos
    vfoResult,   \* what _merge_vfos returned
    cmap,        \* the last _coerce_channel_mapping call: its argument and its outcome
    dfr,         \* the Deferreds of a fork_deferred call
    lastWrite    \* the last write into a cell and its outcome

vars == <<devices, cells, txState, built, closed, closeCalls, lastOp,
          faulty, vfoList, vfoResult, cmap, dfr, lastWrite>>

\* What the operations on Devices leave alone.
aux == <<faulty, vfoList, vfoResult, cmap, dfr, lastWrite>>

\* ------------------------------------------------------------------ bounds
\* Largest number of Devices handed to merge_devices.
MaxInputs == 3
\* Cap of the counters of close() calls a Device makes on one driver.
MaxCloseCalls == 2
\* Bits of the significand of a frequency (a Python float has 53; the model
\* keeps the rounding and scales the width down).
MantissaBits == 3
\* Largest number of cells handed to _merge_vfos.
MaxVfos == 3
\* The largest channel number handed to the channel-mapping coercion.
MaxChannels == 4
\* The most callback pairs added to a Deferred by each of its holders.
MaxCallbacks == 2

\* ------------------------------------------------------------------ names
\* nullExportedState: the sentinel standing for an absent driver or component.
nullExportedState == "nullExportedState"
\* Python None (an absent name, an absent merged VFO).
None == "None"
\* The module-level cell _stub_vfo = _ConstantVFOCell(0.0).
_stub_vfo == "_stub_vfo"
\* No Device (result of an operation that returns none).
NoDevice == -1

Digits == <<"0", "1", "2", "3", "4", "5", "6", "7", "8", "9">>

RECURSIVE FormatInt(_)
\* u'%i' % i for i >= 0
FormatInt(i) ==
    IF i < 10 THEN Digits[i + 1]
    ELSE FormatInt(i \div 10) \o Digits[(i % 10) + 1]

InputIds == 0 .. (MaxInputs - 1)
\* The Device that merge_devices constructs.
Composite == MaxInputs

RxDriverOf(i) == "rx" \o FormatInt(i)
TxDriverOf(i) == "tx" \o FormatInt(i)
AudioTxDriverOf(i) == "audiotx" \o FormatInt(i)
ComponentOf(i, k) == "c" \o FormatInt(i) \o ":" \o k
VfoOf(i) == "vfo" \o FormatInt(i)
MergedVfo == "vfoM"

AudioTXDrivers == {AudioTxDriverOf(i) : i \in InputIds}
TXDrivers == {TxDriverOf(i) : i \in InputIds} \cup AudioTXDrivers
RXDrivers == {RxDriverOf(i) : i \in InputIds}

RECURSIVE SeqOfSet(_)
SeqOfSet(S) ==
    IF S = {} THEN <<>>
    ELSE LET x == CHOOSE y \in S : TRUE IN <<x>> \o SeqOfSet(S \ {x})

Call(obj, method, arg, prev) == [obj |-> obj, method |-> method, arg |-> arg, prev |-> prev]

\* ------------------------------------------------------------------ Device
\* Device.__init__
NewDevice(name, rx_driver, tx_driver, vfo_cell, components) ==
    [name |-> name,
     rx_driver |-> rx_driver,
     tx_driver |-> tx_driver,
     vfo_cell |-> IF vfo_cell = None THEN _stub_vfo ELSE vfo_cell,
     components |-> components,
     transmitting |-> FALSE]

can_receive(d) == devices[d].rx_driver # nullExportedState

can_transmit(d) == devices[d].tx_driver # nullExportedState

can_tune(d) == devices[d].vfo_cell # _stub_vfo

\* _AudioTXDriver.set_transmitting: "pass"; the number of times it invokes the hook.
AudioTXDriver_set_transmitting_hooks == 0

\* ITXDriver.set_transmitting of a driver that keeps the contract: the hook is
\* invoked once the transition has taken effect.
ITXDriver_set_transmitting_hooks == 1

TXDriver_hooks(drv) ==
    IF drv \in AudioTXDrivers THEN AudioTXDriver_set_transmitting_hooks
    ELSE ITXDriver_set_transmitting_hooks

set_transmitting_skips_NoEqualityTest(d, value) == ~can_transmit(d)

set_transmitting_skips_NoDriverTest(d, value) == value = devices[d].transmitting

\* Device.set_transmitting, the test of its early return
set_transmitting_skips(d, value) ==
    ~can_transmit(d) \/ value = devices[d].transmitting

\* Device.set_transmitting: self.__transmitting = value, made before the driver is called
set_transmitting_stores(dev, value) == [dev EXCEPT !.transmitting = value]

\* Device.set_transmitting
SetTransmitting(d, value) ==
    /\ d \in DOMAIN devices
    /\ IF set_transmitting_skips(d, value)
       THEN /\ lastOp' = [op |-> "set_transmitting", self |-> d, value |-> value,
                          hooks |-> 1, calls |-> <<>>,
                          pre_transmitting |-> devices[d].transmitting,
                          pre_can_transmit |-> can_transmit(d),
                          pre_closed |-> d \in closed,
                          raised |-> FALSE, result |-> NoDevice]
            /\ UNCHANGED <<devices, txState>>
       ELSE LET drv == devices[d].tx_driver IN
            \* the driver applies the value and returns, or (a faulty one)
            \* raises without applying it
            \E raises \in (IF faulty THEN BOOLEAN ELSE {FALSE}) :
            /\ devices' = [devices EXCEPT ![d] = set_transmitting_stores(@, value)]
            /\ txState' = IF drv \in DOMAIN txState /\ ~raises
                          THEN [txState EXCEPT ![drv] = value] ELSE txState
            /\ lastOp' = [op |-> "set_transmitting", self |-> d, value |-> value,
                          hooks |-> IF raises THEN 0 ELSE TXDriver_hooks(drv),
                          calls |-> <<Call(drv, "set_transmitting", value,
                                           IF drv \in DOMAIN txState THEN txState[drv] ELSE FALSE)>>,
                          pre_transmitting |-> devices[d].transmitting,
                          pre_can_transmit |-> can_transmit(d),
                          pre_closed |-> d \in closed,
                          raised |-> raises, result |-> NoDevice]
    /\ UNCHANGED <<cells, built, closed, closeCalls>>
    /\ UNCHANGED aux

close_clears_tx_Forgotten(dev) == dev

\* Device.close: self.tx_driver = nullExportedState
close_clears_tx(dev) == [dev EXCEPT !.tx_driver = nullExportedState]

\* Device.close: self.rx_driver = nullExportedState
close_clears_rx(dev) == [dev EXCEPT !.rx_driver = nullExportedState]

\* Device.close: self.__components[key] = nullExportedState, for every key
close_clears_components(dev) ==
    [dev EXCEPT !.components = [k \in DOMAIN dev.components |-> nullExportedState]]

\* Device.close: the close() calls on the two drivers, in order
close_driver_calls(dev) ==
    (IF dev.rx_driver # nullExportedState
     THEN <<Call(dev.rx_driver, "close", FALSE, FALSE)>> ELSE <<>>)
    \o
    (IF dev.tx_driver # nullExportedState
     THEN <<Call(dev.tx_driver, "close", FALSE, FALSE)>> ELSE <<>>)

\* Device.close: component.close() for every entry of the component mapping,
\* whatever the entry is
close_component_calls(dev) ==
    LET keys == SeqOfSet(DOMAIN dev.components) IN
    [j \in 1 .. Len(keys) |-> Call(dev.components[keys[j]], "close", FALSE, FALSE)]

close_passed_ClearsFirst(fail, idx) == fail = 0 \/ fail >= idx

\* Device.close: each object is closed first and its reference cleared after,
\* so the assignment that follows call idx is made when no call fails (fail
\* is 0) or a later call does.
close_passed(fail, idx) == fail = 0 \/ fail > idx

\* Device.close: self.__components[key] = nullExportedState, for the keys
\* whose close() call (the idx-th call for the j-th key) returned
close_clears_components_passed(dev, keys, first, fail) ==
    [dev EXCEPT !.components =
        [k \in DOMAIN dev.components |->
            IF \E j \in 1 .. Len(keys) : keys[j] = k /\ close_passed(fail, first + j)
            THEN nullExportedState ELSE dev.components[k]]]

\* Device.close.  What close() of the sentinel does is decided outside this
\* file: it either returns or raises.  The close() of a faulty driver or
\* component may raise as well.  The first call that raises ends close():
\* fail is its position among the calls, 0 when none raises.
Close(d) ==
    /\ d \in DOMAIN devices
    /\ closeCalls[d].rx < MaxCloseCalls
    /\ closeCalls[d].tx < MaxCloseCalls
    /\ LET dev == devices[d]
           dcalls == close_driver_calls(dev)
           ccalls == close_component_calls(dev)
           keys == SeqOfSet(DOMAIN dev.components)
           calls == dcalls \o ccalls
           nrx == IF dev.rx_driver # nullExportedState THEN 1 ELSE 0
           ntx == IF dev.tx_driver # nullExportedState THEN 1 ELSE 0
           onSentinel == {j \in 1 .. Len(calls) : calls[j].obj = nullExportedState}
           firstSentinel == {j \in onSentinel : \A j2 \in onSentinel : j <= j2}
           onFaulty == IF faulty
                       THEN {j \in 1 .. Len(calls) : calls[j].obj # nullExportedState}
                       ELSE {}
       IN \E fail \in {0} \cup firstSentinel \cup onFaulty :
            LET made == IF fail = 0 THEN calls ELSE SubSeq(calls, 1, fail)
                afterRx == IF close_passed(fail, nrx) THEN close_clears_rx(dev) ELSE dev
                afterTx == IF close_passed(fail, nrx + ntx)
                           THEN close_clears_tx(afterRx) ELSE afterRx
                afterAll == IF fail = 0 THEN close_clears_components(afterTx)
                            ELSE close_clears_components_passed(afterTx, keys, nrx + ntx, fail)
            IN
            /\ devices' = [devices EXCEPT ![d] = afterAll]
            /\ closeCalls' = [closeCalls EXCEPT ![d] =
                              [rx |-> @.rx + nrx,
                               tx |-> @.tx + (IF fail = 0 \/ fail > nrx THEN ntx ELSE 0)]]
            /\ closed' = IF fail # 0 THEN closed ELSE closed \cup {d}
            /\ lastOp' = [op |-> "close", self |-> d, value |-> FALSE,
                          hooks |-> 0, calls |-> made,
                          pre_transmitting |-> dev.transmitting,
                          pre_can_transmit |-> can_transmit(d),
                          pre_closed |-> d \in closed,
                          raised |-> fail # 0, result |-> NoDevice]
    /\ UNCHANGED <<cells, txState, built>>
    /\ UNCHANGED aux

\* Device.notify_reconnecting_or_restarting
notify_calls(dev) ==
    (IF dev.rx_driver # nullExportedState
     THEN <<Call(dev.rx_driver, "notify_reconnecting_or_restarting", FALSE, FALSE)>> ELSE <<>>)
    \o
    (IF dev.tx_driver # nullExportedState
     THEN <<Call(dev.tx_driver, "notify_reconnecting_or_restarting", FALSE, FALSE)>> ELSE <<>>)

NotifyReconnectingOrRestarting(d) ==
    /\ d \in DOMAIN devices
    /\ lastOp' = [op |-> "notify_reconnecting_or_restarting", self |-> d, value |-> FALSE,
                  hooks |-> 0, calls |-> notify_calls(devices[d]),
                  pre_transmitting |-> devices[d].transmitting,
                  pre_can_transmit |-> can_transmit(d),
                  pre_closed |-> d \in closed,
                  raised |-> FALSE, result |-> NoDevice]
    /\ UNCHANGED <<devices, cells, txState, built, closed, closeCalls>>
    /\ UNCHANGED aux

\* ------------------------------------------------------------------ float arithmetic
\* Frequencies are Python floats.  They are modelled by the integers that a
\* binary format of MantissaBits significant bits represents (the unit is its
\* smallest step), and every sum and difference is rounded to the nearest
\* representable number, ties to the even significand.
RECURSIVE Pow2(_)
Pow2(n) == IF n = 0 THEN 1 ELSE 2 * Pow2(n - 1)

RECURSIVE UlpOf(_, _)
\* The step between the representable numbers around magnitude m.
UlpOf(m, u) == IF m < Pow2(MantissaBits) * u THEN u ELSE UlpOf(m, 2 * u)

Round(r) ==
    LET m == IF r < 0 THEN 0 - r ELSE r
        u == UlpOf(m, 1)
        q == m \div u
        rem == m % u
        up == 2 * rem > u \/ (2 * rem = u /\ q % 2 = 1)
        mag == (IF up THEN q + 1 ELSE q) * u
    IN IF r < 0 THEN 0 - mag ELSE mag

\* x + y on floats
FAdd(x, y) == Round(x + y)

\* x - y on floats
FSub(x, y) == Round(x - y)

\* ------------------------------------------------------------------ VFO cells
\* LooseCell(value, type=RangeT([(lo, hi)]), writable, persists)
LooseCell(value, lo, hi, writable, persists) ==
    [kind |-> "LooseCell", value |-> value, lo |-> lo, hi |-> hi,
     writable |-> writable, persists |-> persists, base |-> None, shift |-> 0]

\* ViewCell(base, get_transform = x + shift, set_transform = x - shift, type, writable, persists)
ViewCell(base, shift, lo, hi, writable, persists) ==
    [kind |-> "ViewCell", value |-> 0, lo |-> lo, hi |-> hi,
     writable |-> writable, persists |-> persists, base |-> base, shift |-> shift]

\* _ConstantVFOCell
_ConstantVFOCell(value) == LooseCell(value, value, value, FALSE, FALSE)

\* RangeT.get_single_point: whether the allowed set is exactly one point
has_single_point(cell) == cell.lo = cell.hi

\* RangeT.get_single_point: that point
get_single_point(cell) == cell.lo

\* RangeT.shifted_by, on one end of the interval
shifted_by(bound, offset) == FAdd(bound, offset)

\* _merge_vfos: get_transform=lambda x: x + fixed
get_transform(x, fixed) == FAdd(x, fixed)

set_transform_Adds(x, fixed) == FAdd(x, fixed)

\* _merge_vfos: set_transform=lambda x: x - fixed
set_transform(x, fixed) == FSub(x, fixed)

\* cell.get(): a LooseCell returns its value, a ViewCell the transform of its
\* base's value
cell_get(c) ==
    IF cells[c].kind = "ViewCell"
    THEN get_transform(cells[cells[c].base].value, cells[c].shift)
    ELSE cells[c].value

\* Whether a cell takes a write of x: it is writable and x is in its range.
cell_accepts(c, x) ==
    cells[c].writable /\ cells[c].lo <= x /\ x <= cells[c].hi

\* cell.set(x): a write a cell does not take raises and changes nothing; a
\* LooseCell stores x, a ViewCell writes the transform of x into its base.
cell_set(c, x) ==
    IF ~cell_accepts(c, x) THEN [raised |-> TRUE, cells |-> cells]
    ELSE IF cells[c].kind = "ViewCell"
    THEN LET b == cells[c].base
             y == set_transform(x, cells[c].shift)
         IN IF ~cell_accepts(b, y) THEN [raised |-> TRUE, cells |-> cells]
            ELSE [raised |-> FALSE, cells |-> [cells EXCEPT ![b].value = y]]
    ELSE [raised |-> FALSE, cells |-> [cells EXCEPT ![c].value = x]]

set_freq_target_AnyWritable(d) ==
    IF \E c \in DOMAIN cells : cells[c].writable
    THEN CHOOSE c \in DOMAIN cells : cells[c].writable
    ELSE devices[d].vfo_cell

\* Device.set_freq, Device.get_freq: the cell they act on, self.__vfo_cell
set_freq_target(d) == devices[d].vfo_cell

\* Device.get_freq
get_freq(d) == cell_get(devices[d].vfo_cell)

\* Device.set_freq
SetFreq(d, value) ==
    /\ d \in DOMAIN devices
    /\ LET c == set_freq_target(d)
           r == cell_set(c, value)
       IN /\ cells' = r.cells
          /\ lastWrite' = [op |-> "set", cell |-> c, x |-> value, raised |-> r.raised]
          /\ lastOp' = [op |-> "set_freq", self |-> d, value |-> FALSE,
                        hooks |-> 0, calls |-> <<>>,
                        pre_transmitting |-> devices[d].transmitting,
                        pre_can_transmit |-> can_transmit(d),
                        pre_closed |-> d \in closed,
                        raised |-> r.raised, result |-> NoDevice]
    /\ UNCHANGED <<devices, txState, built, closed, closeCalls>>
    /\ UNCHANGED <<faulty, vfoList, vfoResult, cmap, dfr>>

\* ------------------------------------------------------------------ merge
_at_most_one_TakesFirst(zero, items) ==
    [raised |-> FALSE, value |-> IF Len(items) = 0 THEN zero ELSE items[1]]

\* _at_most_one
_at_most_one(zero, items) ==
    IF Len(items) = 1 THEN [raised |-> FALSE, value |-> items[1]]
    ELSE IF Len(items) = 0 THEN [raised |-> FALSE, value |-> zero]
    ELSE [raised |-> TRUE, value |-> zero]

RECURSIVE merge_vfos_fixed(_)
\* _merge_vfos: the sum "fixed" of the single points
merge_vfos_fixed(vfos) ==
    IF Len(vfos) = 0 THEN 0
    ELSE LET n == Len(vfos)
             rest == merge_vfos_fixed(SubSeq(vfos, 1, n - 1))
         IN IF has_single_point(cells[vfos[n]])
            THEN FAdd(rest, get_single_point(cells[vfos[n]]))
            ELSE rest

merge_vfos_variable_All(vfos) == vfos

\* _merge_vfos: the list "variable"
merge_vfos_variable(vfos) ==
    SelectSeq(vfos, LAMBDA v : ~has_single_point(cells[v]))

\* _merge_vfos.  cell is the cell returned (None for Python None), alloc the
\* cell it constructs, if any.
_merge_vfos(vfos) ==
    LET fixed == merge_vfos_fixed(vfos)
        variable == merge_vfos_variable(vfos)
    IN IF Len(variable) = 0
       THEN IF fixed = 0
            THEN [raised |-> FALSE, cell |-> None, alloc |-> <<>>]
            ELSE [raised |-> FALSE, cell |-> MergedVfo,
                  alloc |-> (MergedVfo :> _ConstantVFOCell(fixed))]
       ELSE IF Len(variable) = 1
       THEN LET variable_one == variable[1] IN
            IF fixed = 0
            THEN [raised |-> FALSE, cell |-> variable_one, alloc |-> <<>>]
            ELSE [raised |-> FALSE, cell |-> MergedVfo,
                  alloc |-> (MergedVfo :>
                     ViewCell(variable_one, fixed,
                              shifted_by(cells[variable_one].lo, fixed),
                              shifted_by(cells[variable_one].hi, fixed),
                              TRUE,
                              cells[variable_one].persists))]
       ELSE [raised |-> TRUE, cell |-> None, alloc |-> <<>>]

\* merge_devices: component_names = Counter(k for d in devices for k in d.get_components_dict())
component_names(devs, k) ==
    Cardinality({j \in 1 .. Len(devs) : k \in DOMAIN devices[devs[j]].components})

\* merge_devices: the prefix of the keys of devs[j], whose index i is j - 1
merge_prefix(devs, j) ==
    IF \E k \in DOMAIN devices[devs[j]].components : component_names(devs, k) > 1
    THEN FormatInt(j - 1) \o "-"
    ELSE ""

RECURSIVE merged_components(_, _)
\* merge_devices: merged_components after the first j Devices; a later
\* assignment to a key replaces an earlier one
merged_components(devs, j) ==
    IF j = 0 THEN <<>>
    ELSE LET prev == merged_components(devs, j - 1)
             comps == devices[devs[j]].components
             prefix == merge_prefix(devs, j)
             new == {prefix \o k : k \in DOMAIN comps}
         IN [kk \in DOMAIN prev \cup new |->
                IF kk \in new
                THEN comps[CHOOSE k \in DOMAIN comps : prefix \o k = kk]
                ELSE prev[kk]]

RECURSIVE JoinPlus(_)
\* '+'.join(names)
JoinPlus(names) ==
    IF Len(names) = 1 THEN names[1]
    ELSE JoinPlus(SubSeq(names, 1, Len(names) - 1)) \o "+" \o names[Len(names)]

merged_name_Reversed(devs) ==
    LET named == SelectSeq(devs, LAMBDA d : devices[d].name # None)
        names == [j \in 1 .. Len(named) |-> devices[named[Len(named) + 1 - j]].name]
    IN IF Len(names) = 0 THEN None ELSE JoinPlus(names)

\* merge_devices: name=None if len(names) == 0 else '+'.join(names)
merged_name(devs) ==
    LET named == SelectSeq(devs, LAMBDA d : devices[d].name # None)
        names == [j \in 1 .. Len(named) |-> devices[named[j]].name]
    IN IF Len(names) = 0 THEN None ELSE JoinPlus(names)

\* merge_devices: rx_drivers
merge_rx_drivers(devs) ==
    LET can == SelectSeq(devs, LAMBDA d : can_receive(d))
    IN [j \in 1 .. Len(can) |-> devices[can[j]].rx_driver]

\* merge_devices: tx_drivers
merge_tx_drivers(devs) ==
    LET can == SelectSeq(devs, LAMBDA d : can_transmit(d))
    IN [j \in 1 .. Len(can) |-> devices[can[j]].tx_driver]

merge_vfo_cells_All(devs) ==
    [j \in 1 .. Len(devs) |-> devices[devs[j]].vfo_cell]

\* merge_devices: vfo_cells
merge_vfo_cells(devs) ==
    LET can == SelectSeq(devs, LAMBDA d : can_tune(d))
    IN [j \in 1 .. Len(can) |-> devices[can[j]].vfo_cell]

merge_devices_NoShortcut(devs) ==
    LET rx == _at_most_one(nullExportedState, merge_rx_drivers(devs))
        tx == _at_most_one(nullExportedState, merge_tx_drivers(devs))
        vfo == _merge_vfos(merge_vfo_cells(devs))
    IN [raised |-> rx.raised \/ tx.raised \/ vfo.raised,
        result |-> Composite,
        device |-> NewDevice(merged_name(devs), rx.value, tx.value, vfo.cell,
                             merged_components(devs, Len(devs))),
        alloc |-> vfo.alloc]

\* merge_devices.  result is the Device returned: the single input itself, or
\* the new Device "device" (with the cell "alloc" that _merge_vfos built).
merge_devices(devs) ==
    IF Len(devs) = 1
    THEN [raised |-> FALSE, result |-> devs[1], device |-> devices[devs[1]], alloc |-> <<>>]
    ELSE LET rx == _at_most_one(nullExportedState, merge_rx_drivers(devs))
             tx == _at_most_one(nullExportedState, merge_tx_drivers(devs))
             vfo == _merge_vfos(merge_vfo_cells(devs))
         IN [raised |-> rx.raised \/ tx.raised \/ vfo.raised,
             result |-> Composite,
             device |-> NewDevice(merged_name(devs), rx.value, tx.value, vfo.cell,
                                  merged_components(devs, Len(devs))),
             alloc |-> vfo.alloc]

merge_heap_TakesDrivers(r) ==
    [d \in DOMAIN devices \cup {Composite} |->
        IF d = Composite THEN r.device
        ELSE [devices[d] EXCEPT !.rx_driver = nullExportedState,
                                !.tx_driver = nullExportedState]]

\* merge_devices: return Device(...).  The Devices after the call are the
\* inputs, as they were, and the Device constructed.
merge_heap(r) == (Composite :> r.device) @@ devices

\* The list handed to merge_devices: every input Device, in order.
InputList == [j \in 1 .. Cardinality(DOMAIN devices \ {Composite}) |-> j - 1]

\* A call of merge_devices on the input Devices.  Two or more Devices holding
\* the sentinel in their component mapping (closed ones) are not merged:
\* whether the sentinel adapts to IComponent is decided outside this file.  A
\* single Device is returned before its components are looked at.
MergeDevices ==
    /\ Composite \notin DOMAIN devices
    /\ \/ Len(InputList) = 1
       \/ \A d \in DOMAIN devices : \A k \in DOMAIN devices[d].components :
             devices[d].components[k] # nullExportedState
    /\ LET r == merge_devices(InputList) IN
       /\ lastOp' = [op |-> "merge_devices", self |-> NoDevice, value |-> FALSE,
                     hooks |-> 0, calls |-> <<>>,
                     pre_transmitting |-> FALSE, pre_can_transmit |-> FALSE,
                     pre_closed |-> FALSE,
                     raised |-> r.raised,
                     result |-> IF r.raised THEN NoDevice ELSE r.result]
       /\ IF r.raised \/ r.result # Composite
          THEN UNCHANGED <<devices, cells, built, closeCalls>>
          ELSE /\ devices' = merge_heap(r)
               /\ cells' = r.alloc @@ cells
               /\ built' = (Composite :> [rx |-> r.device.rx_driver, tx |-> r.device.tx_driver]) @@ built
               /\ closeCalls' = (Composite :> [rx |-> 0, tx |-> 0]) @@ closeCalls
    /\ UNCHANGED <<txState, closed>>
    /\ UNCHANGED aux

\* ------------------------------------------------------------------ initial states
\* The cell a Device is constructed with, by the way it is made:
\*   "stub"      no vfo_cell argument: _stub_vfo
\*   "shift"     FrequencyShift(5): _ConstantVFOCell(5.0)
\*   "shift0"    FrequencyShift(0): _ConstantVFOCell(0.0), a cell of its own
\*   "audio"     AudioDevice: LooseCell(0.0, RangeT([(0.0, 0.0)]), writable)
\*   "variable"  a tunable oscillator: a writable cell over an interval
VfoCellOfKind(kind) ==
    CASE kind = "shift" -> _ConstantVFOCell(5)
      [] kind = "shift0" -> _ConstantVFOCell(0)
      [] kind = "audio" -> LooseCell(0, 0, 0, TRUE, FALSE)
      [] kind = "variable" -> LooseCell(1, 0, 3, TRUE, TRUE)
      [] OTHER -> _ConstantVFOCell(0)

\* Device(name, rx_driver, tx_driver, vfo_cell, components) for input i
BuildDevice(i, c) ==
    NewDevice(c.name,
              IF c.rx THEN RxDriverOf(i) ELSE nullExportedState,
              CASE c.tx = "contract" -> TxDriverOf(i)
                [] c.tx = "audio" -> AudioTxDriverOf(i)
                [] OTHER -> nullExportedState,
              IF c.vfo = "stub" THEN None ELSE VfoOf(i),
              [k \in c.keys |-> ComponentOf(i, k)])

\* No call made yet of the functions that are not Device operations.
NoCall == [op |-> "none"]

AuxIdle ==
    /\ vfoList = <<>>
    /\ vfoResult = NoCall
    /\ cmap = NoCall
    /\ dfr = NoCall
    /\ lastWrite = NoCall

InitDevices(Counts, Names, RxKinds, TxKinds, VfoKinds, KeyPool) ==
    \E n \in Counts :
    \E cfg \in [0 .. (n - 1) -> [name : Names, rx : RxKinds, tx : TxKinds,
                                  vfo : VfoKinds, keys : SUBSET KeyPool]] :
        /\ devices = [i \in 0 .. (n - 1) |-> BuildDevice(i, cfg[i])]
        /\ cells = [c \in {_stub_vfo} \cup {VfoOf(i) : i \in {j \in 0 .. (n - 1) : cfg[j].vfo # "stub"}} |->
                       IF c = _stub_vfo THEN _ConstantVFOCell(0)
                       ELSE VfoCellOfKind(cfg[CHOOSE i \in 0 .. (n - 1) : VfoOf(i) = c].vfo)]
        /\ txState = [drv \in TXDrivers |-> FALSE]
        /\ built = [i \in 0 .. (n - 1) |->
                       [rx |-> devices[i].rx_driver, tx |-> devices[i].tx_driver]]
        /\ closed = {}
        /\ closeCalls = [i \in 0 .. (n - 1) |-> [rx |-> 0, tx |-> 0]]
        /\ lastOp = [op |-> "init", self |-> NoDevice, value |-> FALSE,
                     hooks |-> 0, calls |-> <<>>,
                     pre_transmitting |-> FALSE, pre_can_transmit |-> FALSE,
                     pre_closed |-> FALSE, raised |-> FALSE, result |-> NoDevice]

InitFrom(Counts, Names, RxKinds, TxKinds, VfoKinds, KeyPool) ==
    /\ faulty = FALSE
    /\ AuxIdle
    /\ InitDevices(Counts, Names, RxKinds, TxKinds, VfoKinds, KeyPool)

\* Two Devices, with or without drivers and a component, and their composite.
Init ==
    InitFrom({2}, {None}, BOOLEAN, {"none", "contract", "audio"}, {"stub"}, {"k"})

Next ==
    \/ \E d \in DOMAIN devices : \E value \in BOOLEAN : SetTransmitting(d, value)
    \/ \E d \in DOMAIN devices : Close(d)
    \/ \E d \in DOMAIN devices : NotifyReconnectingOrRestarting(d)
    \/ MergeDevices

Spec == Init /\ [][Next]_vars

\* Component keys of the merge of up to MaxInputs driverless Devices; the pool
\* holds keys that have the form of a prefixed key.
ComponentKeyPool == {"k", "a", "0-k", "0-a"}

InitComponents ==
    InitFrom(1 .. MaxInputs, {None}, {FALSE}, {"none"}, {"stub"}, ComponentKeyPool)

SpecMergeComponents == InitComponents /\ [][MergeDevices]_vars

\* Drivers and VFO cells of the merge of up to MaxInputs Devices without components.
InitDrivers ==
    InitFrom(1 .. MaxInputs, {None}, BOOLEAN, {"none", "contract"},
             {"stub", "shift", "variable"}, {})

SpecMergeDrivers == InitDrivers /\ [][MergeDevices]_vars

\* Names of the merge of up to MaxInputs Devices without drivers or components:
\* no name, the empty name, and two names.
NamePool == {None, "", "A", "B"}

InitNames ==
    InitFrom(1 .. MaxInputs, NamePool, {FALSE}, {"none"}, {"stub"}, {})

SpecMergeNames == InitNames /\ [][MergeDevices]_vars

\* One Device whose transmit driver, if it has one, may raise from
\* set_transmitting.
InitFaulty ==
    /\ faulty = TRUE
    /\ AuxIdle
    /\ InitDevices({1}, {None}, BOOLEAN, {"none", "contract"}, {"stub"}, {"k"})

SpecFaulty == InitFaulty /\ [][Next]_vars

\* One Device, with or without drivers and up to two components, whose
\* drivers and components may raise from close().
InitCloseFails ==
    /\ faulty = TRUE
    /\ AuxIdle
    /\ InitDevices({1}, {None}, BOOLEAN, {"none", "contract"}, {"stub"}, {"k", "a"})

SpecCloseFails == InitCloseFails /\ [][Next]_vars

\* ------------------------------------------------------------------ _merge_vfos alone
\* A call of _merge_vfos on the list of cells.
MergeVfos ==
    /\ vfoResult = NoCall
    /\ LET r == _merge_vfos(vfoList) IN
       /\ vfoResult' = [op |-> "_merge_vfos", raised |-> r.raised, cell |-> r.cell]
       /\ cells' = r.alloc @@ cells
    /\ UNCHANGED <<devices, txState, built, closed, closeCalls, lastOp,
                   faulty, vfoList, cmap, dfr, lastWrite>>

\* Values a caller writes into a cell.
WriteValues == {x \in -16 .. 24 : Round(x) = x}

\* cell.set(x) on any cell
WriteCell(c, x) ==
    /\ c \in DOMAIN cells
    /\ LET r == cell_set(c, x) IN
       /\ cells' = r.cells
       /\ lastWrite' = [op |-> "set", cell |-> c, x |-> x, raised |-> r.raised]
    /\ UNCHANGED <<devices, txState, built, closed, closeCalls, lastOp,
                   faulty, vfoList, vfoResult, cmap, dfr>>

\* The cells a list handed to _merge_vfos is made of: fixed points (0, 1, 5,
\* -5, -14), the audio cell, and tunable cells over 0..3, writable or not,
\* persisted or not, or over 14..20.
VfoCellPool ==
    {_ConstantVFOCell(v) : v \in {0, 1, 5, 0 - 5, 0 - 14}}
    \cup {LooseCell(0, 0, 0, TRUE, FALSE)}
    \cup {LooseCell(1, 0, 3, w, q) : w \in BOOLEAN, q \in BOOLEAN}
    \cup {LooseCell(14, 14, 20, TRUE, TRUE)}

InitVfos(Counts) ==
    /\ devices = <<>>
    /\ txState = [drv \in TXDrivers |-> FALSE]
    /\ built = <<>>
    /\ closed = {}
    /\ closeCalls = <<>>
    /\ lastOp = [op |-> "init", self |-> NoDevice, value |-> FALSE,
                 hooks |-> 0, calls |-> <<>>,
                 pre_transmitting |-> FALSE, pre_can_transmit |-> FALSE,
                 pre_closed |-> FALSE, raised |-> FALSE, result |-> NoDevice]
    /\ faulty = FALSE
    /\ vfoResult = NoCall
    /\ cmap = NoCall
    /\ dfr = NoCall
    /\ lastWrite = NoCall
    /\ \E n \in Counts : \E pick \in [1 .. n -> VfoCellPool] :
          /\ vfoList = [j \in 1 .. n |-> VfoOf(j - 1)]
          /\ cells = [c \in {_stub_vfo} \cup {VfoOf(j - 1) : j \in 1 .. n} |->
                        IF c = _stub_vfo THEN _ConstantVFOCell(0)
                        ELSE pick[CHOOSE j \in 1 .. n : VfoOf(j - 1) = c]]

\* _merge_vfos on every list of up to MaxVfos cells.
SpecMergeVfos == InitVfos(0 .. MaxVfos) /\ [][MergeVfos]_vars

\* _merge_vfos on a list of one or two cells, and writes into its cells and
\* into the cell it returns.
NextDerived ==
    \/ MergeVfos
    \/ \E c \in DOMAIN cells : \E x \in WriteValues : WriteCell(c, x)

SpecDerived == InitVfos({1, 2}) /\ [][NextDerived]_vars

\* ------------------------------------------------------------------ Devices and their composite
\* Frequencies a caller tunes a Device to: one a tunable cell over 0..3
\* takes, one a cell shifted by 5 takes.
FreqValues == {2, 7}

\* One or two Devices with a receive driver, with or without a transmit
\* driver, a component and a VFO, operated before and after their merge.
InitComposite ==
    InitFrom({1, 2}, {None}, {TRUE}, {"none", "contract"},
             {"stub", "shift", "variable"}, {"k"})

NextComposite ==
    \/ \E d \in DOMAIN devices : \E value \in BOOLEAN : SetTransmitting(d, value)
    \/ \E d \in DOMAIN devices : Close(d)
    \/ \E d \in DOMAIN devices : \E x \in FreqValues : SetFreq(d, x)
    \/ MergeDevices

SpecComposite == InitComposite /\ [][NextComposite]_vars

\* ------------------------------------------------------------------ _coerce_channel_mapping
\* Arguments are records: kind says which Python type the argument has.  A
\* list argument is a sequence of rows; a row is a list of elements or not a
\* list at all; an element is a number or not.
IntArg(n) == [kind |-> "int", n |-> n]
StrArg(str) == [kind |-> "str", str |-> str]
ListArg(rows) == [kind |-> "list", rows |-> rows]
NoneArg == [kind |-> "None"]

TypeError == [raised |-> TRUE, value |-> <<>>]
Returns(value) == [raised |-> FALSE, value |-> value]

coerce_int_Identity(n) == [i \in 1 .. n |-> [j \in 1 .. n |-> IF i = j THEN 1 ELSE 0]]

\* [[int(i == channel_mapping - 1) for i in range(0, channel_mapping)]]; the
\* position of i in the row is i + 1
coerce_int(n) == <<[j \in 1 .. n |-> IF (j - 1) = n - 1 THEN 1 ELSE 0]>>

\* The checks made on a list argument, in the order the code makes them.
coerce_list(rows) ==
    IF ~(1 <= Len(rows) /\ Len(rows) <= 2) THEN TypeError
    ELSE IF \E i \in 1 .. Len(rows) : ~rows[i].islist THEN TypeError
    ELSE IF \E i \in 1 .. Len(rows) : \E j \in 1 .. Len(rows[i].elems) :
               ~rows[i].elems[j].isnum THEN TypeError
    ELSE IF Len(rows) = 2 /\ Len(rows[1].elems) # Len(rows[2].elems) THEN TypeError
    ELSE IF Len(rows[1].elems) = 0 THEN TypeError
    ELSE Returns([i \in 1 .. Len(rows) |->
                    [j \in 1 .. Len(rows[i].elems) |-> rows[i].elems[j].val]])

_coerce_channel_mapping(channel_mapping) ==
    CASE channel_mapping.kind = "None" -> Returns(<<<<1, 0>>, <<0, 1>>>>)
      [] channel_mapping.kind = "int" ->
            IF channel_mapping.n <= 0 THEN TypeError
            ELSE Returns(coerce_int(channel_mapping.n))
      [] channel_mapping.kind = "str" /\ channel_mapping.str = "IQ" ->
            Returns(<<<<1, 0>>, <<0, 1>>>>)
      [] channel_mapping.kind = "str" /\ channel_mapping.str = "QI" ->
            Returns(<<<<0, 1>>, <<1, 0>>>>)
      [] channel_mapping.kind = "list" -> coerce_list(channel_mapping.rows)
      [] OTHER -> TypeError

\* Elements, rows and lists a caller passes.
ElemPool == {[isnum |-> TRUE, val |-> 0], [isnum |-> TRUE, val |-> 1],
             [isnum |-> FALSE, val |-> 0]}

SeqsUpTo(S, n) == UNION {[1 .. k -> S] : k \in 0 .. n}

RowPool == {[islist |-> FALSE, elems |-> <<>>]}
           \cup {[islist |-> TRUE, elems |-> e] : e \in SeqsUpTo(ElemPool, 2)}

ChannelMappings ==
    {NoneArg}
    \cup {IntArg(n) : n \in -1 .. MaxChannels}
    \cup {StrArg(str) : str \in {"IQ", "QI", "XY"}}
    \cup {ListArg(rows) : rows \in SeqsUpTo(RowPool, 3)}

\* No Device exists.
NoDevices ==
    /\ devices = <<>>
    /\ cells = (_stub_vfo :> _ConstantVFOCell(0))
    /\ txState = [drv \in TXDrivers |-> FALSE]
    /\ built = <<>>
    /\ closed = {}
    /\ closeCalls = <<>>
    /\ lastOp = [op |-> "init", self |-> NoDevice, value |-> FALSE,
                 hooks |-> 0, calls |-> <<>>,
                 pre_transmitting |-> FALSE, pre_can_transmit |-> FALSE,
                 pre_closed |-> FALSE, raised |-> FALSE, result |-> NoDevice]
    /\ faulty = FALSE
    /\ vfoList = <<>>
    /\ vfoResult = NoCall
    /\ lastWrite = NoCall

InitCoerce ==
    /\ NoDevices
    /\ dfr = NoCall
    /\ \E arg \in ChannelMappings : cmap = [op |-> "argument", arg |-> arg]

\* A call of _coerce_channel_mapping on the argument.
Coerce ==
    /\ cmap.op = "argument"
    /\ LET r == _coerce_channel_mapping(cmap.arg) IN
       cmap' = [op |-> "_coerce_channel_mapping", arg |-> cmap.arg,
                raised |-> r.raised, value |-> r.value]
    /\ UNCHANGED <<devices, cells, txState, built, closed, closeCalls, lastOp,
                   faulty, vfoList, vfoResult, dfr, lastWrite>>

SpecCoerce == InitCoerce /\ [][Coerce]_vars

\* ------------------------------------------------------------------ fork_deferred
\* A Deferred holds whether it has fired, its current result, and the callback
\* pairs not run yet.  Once it has fired it runs its pairs in order, at once:
\* of each pair the callback if the result is a value, the errback if it is a
\* failure, and what that returns (or the failure of what it raises) is the
\* result handed to the next pair.
NoResult == [kind |-> "none", v |-> None]
Success(v) == [kind |-> "value", v |-> v]
Failure(e) == [kind |-> "failure", v |-> e]

\* defer.Deferred()
NewDeferred == [called |-> FALSE, result |-> NoResult, callbacks |-> <<>>]

\* What the callbacks and errbacks that the holder of d2 adds do with the
\* result handed to them: return it, return another value, raise, or return
\* nothing.
Behaviours == {"pass", "replace", "raise", "none"}

Apply(behaviour, r) ==
    CASE behaviour = "pass" -> r
      [] behaviour = "replace" -> Success("w")
      [] behaviour = "raise" -> Failure("e2")
      [] OTHER -> Success(None)

RECURSIVE run_d2(_)
\* Deferred._runCallbacks on d2
run_d2(dd) ==
    IF ~dd.called \/ dd.callbacks = <<>> THEN dd
    ELSE LET pair == Head(dd.callbacks)
             f == IF dd.result.kind = "failure" THEN pair.errback ELSE pair.callback
         IN run_d2([dd EXCEPT !.result = Apply(f, dd.result), !.callbacks = Tail(@)])

\* fork_deferred, callback: d2.callback(v); errback: d2.errback(f)
fork_passes(r) == IF r.kind = "failure" THEN Failure(r.v) ELSE Success(r.v)

fork_returns_Nothing(r) == Success(None)

\* fork_deferred, callback: return v; errback: f.trap(), which raises the
\* error of f again
fork_returns(r) == IF r.kind = "failure" THEN Failure(r.v) ELSE Success(r.v)

RECURSIVE run_d(_)
\* Deferred._runCallbacks on d, whose callbacks are the pair of fork_deferred
\* ("fork") and pairs that note the result handed to them and return it
\* ("observe").
run_d(st) ==
    IF ~st.d.called \/ st.d.callbacks = <<>> THEN st
    ELSE LET r == st.d.result IN
         IF Head(st.d.callbacks) = "fork"
         THEN run_d([st EXCEPT !.d.callbacks = Tail(@),
                               !.d.result = fork_returns(r),
                               !.d2 = run_d2([@ EXCEPT !.called = TRUE,
                                                       !.result = fork_passes(r)]),
                               !.fired2 = fork_passes(r)])
         ELSE run_d([st EXCEPT !.d.callbacks = Tail(@),
                               !.seen = Append(@, r)])

InitFork ==
    /\ NoDevices
    /\ cmap = NoCall
    /\ dfr = [op |-> "deferred", d |-> NewDeferred, d2 |-> NewDeferred,
              forked |-> FALSE, fired |-> NoResult, fired2 |-> NoResult,
              seen |-> <<>>, added |-> 0, observers |-> 0]

DeferredFrame ==
    UNCHANGED <<devices, cells, txState, built, closed, closeCalls, lastOp,
                faulty, vfoList, vfoResult, cmap, lastWrite>>

\* fork_deferred(d): d2 = defer.Deferred(); d.addCallbacks(callback, errback)
ForkDeferred ==
    /\ ~dfr.forked
    /\ dfr' = run_d([dfr EXCEPT !.forked = TRUE,
                                !.d2 = NewDeferred,
                                !.d.callbacks = Append(@, "fork")])
    /\ DeferredFrame

\* d.callback(v) or d.errback(e) by the owner of d
Fire(outcome) ==
    /\ ~dfr.d.called
    /\ dfr' = run_d([dfr EXCEPT !.d.called = TRUE, !.d.result = outcome,
                                !.fired = outcome])
    /\ DeferredFrame

\* d2.addCallbacks(callback, errback) by the holder of d2
AddCallbacks(callback, errback) ==
    /\ dfr.forked
    /\ dfr.added < MaxCallbacks
    /\ dfr' = [dfr EXCEPT !.added = @ + 1,
                          !.d2 = run_d2([@ EXCEPT !.callbacks =
                                    Append(@, [callback |-> callback, errback |-> errback])])]
    /\ DeferredFrame

\* d.addBoth(observe), after the fork
AddObserver ==
    /\ dfr.forked
    /\ dfr.observers < MaxCallbacks
    /\ dfr' = run_d([dfr EXCEPT !.observers = @ + 1,
                                !.d.callbacks = Append(@, "observe")])
    /\ DeferredFrame

NextFork ==
    \/ ForkDeferred
    \/ \E outcome \in {Success("v"), Failure("e")} : Fire(outcome)
    \/ \E callback \in Behaviours : \E errback \in Behaviours :
          AddCallbacks(callback, errback)
    \/ AddObserver

SpecFork == InitFork /\ [][NextFork]_vars

\* ------------------------------------------------------------------ claims
Inputs == DOMAIN devices \ {Composite}

IsSetTransmitting == lastOp.op = "set_transmitting"

\* A merge_devices call on two or more Devices that returned the composite.
Merged == lastOp.op = "merge_devices" /\ ~lastOp.raised /\ lastOp.result = Composite

\* A merge_devices call on two or more Devices, returned or raised.
MergeOfSeveral == lastOp.op = "merge_devices" /\ Cardinality(Inputs) >= 2

\* C1: every set_transmitting call invokes on_applied exactly once before it
\* returns, on every path, the audio transmit driver included.
C1_HookExactlyOnce == IsSetTransmitting => lastOp.hooks = 1

C3_NoRedundantDriverCall ==
    \A j \in 1 .. Len(lastOp.calls) :
        lastOp.calls[j].method = "set_transmitting"
            => lastOp.calls[j].arg # lastOp.calls[j].prev

\* C4 as stated: on a Device with no transmit driver, set_transmitting calls no
\* driver, leaves can_transmit() false and the transmitting state false, and
\* invokes on_applied.
C4_Original ==
    (IsSetTransmitting /\ ~lastOp.pre_can_transmit)
        => /\ lastOp.calls = <<>>
           /\ ~can_transmit(lastOp.self)
           /\ ~devices[lastOp.self].transmitting
           /\ lastOp.hooks = 1

\* C4 amended: on a Device with no transmit driver, set_transmitting calls no
\* driver, leaves can_transmit() false and the transmitting state unchanged
\* (false when the Device was built without a transmit driver), and invokes
\* on_applied once.
C4_NoDriverIsNoop ==
    (IsSetTransmitting /\ ~lastOp.pre_can_transmit)
        => /\ lastOp.calls = <<>>
           /\ ~can_transmit(lastOp.self)
           /\ devices[lastOp.self].transmitting = lastOp.pre_transmitting
           /\ (built[lastOp.self].tx = nullExportedState
                  => ~devices[lastOp.self].transmitting)
           /\ lastOp.hooks = 1

\* set_transmitting(True) on a Device built without a transmit driver.
C4_Witness ==
    /\ IsSetTransmitting /\ ~lastOp.pre_can_transmit /\ lastOp.value
    /\ built[lastOp.self].tx = nullExportedState
    /\ lastOp.hooks = 1

\* C5 as stated: in every reachable state the transmitting state is true only
\* if a transmit driver is present.
C5_Original ==
    \A d \in DOMAIN devices : devices[d].transmitting => can_transmit(d)

\* C5 amended: the transmitting state is true only if a transmit driver is
\* present, or was present until this Device's close() discarded it; close()
\* does not reset the transmitting state.
C5_TransmittingNeedsDriver ==
    \A d \in DOMAIN devices :
        devices[d].transmitting
            => \/ can_transmit(d)
               \/ built[d].tx # nullExportedState /\ closeCalls[d].tx = 1

\* A Device closed while transmitting: no transmit driver, transmitting still true.
C5_Witness ==
    \E d \in closed : devices[d].transmitting /\ ~can_transmit(d)

\* C6: once close() has returned, can_receive() and can_transmit() are false,
\* each driver the Device was built with has had close() called exactly once
\* by it, and no later operation on the Device calls a method of those drivers.
C6_ClosedStaysClosed ==
    \A d \in closed :
        /\ ~can_receive(d)
        /\ ~can_transmit(d)
        /\ built[d].rx # nullExportedState => closeCalls[d].rx = 1
        /\ built[d].tx # nullExportedState => closeCalls[d].tx = 1
        /\ (lastOp.self = d /\ lastOp.pre_closed)
              => \A j \in 1 .. Len(lastOp.calls) :
                    lastOp.calls[j].obj \notin ({built[d].rx, built[d].tx} \ {nullExportedState})

\* A second close() of a Device built with both drivers.
C6_Witness ==
    /\ lastOp.op = "close" /\ lastOp.pre_closed
    /\ lastOp.self \in closed
    /\ built[lastOp.self].rx # nullExportedState
    /\ built[lastOp.self].tx # nullExportedState

\* C7: a second close() of a Device with components makes no close() call on
\* any entry of the component mapping.
C7_SecondCloseCallsNothing ==
    (lastOp.op = "close" /\ lastOp.pre_closed
        /\ DOMAIN devices[lastOp.self].components # {})
        => lastOp.calls = <<>>

RECURSIVE SumOver(_, _)
SumOver(S, f) ==
    IF S = {} THEN 0
    ELSE LET x == CHOOSE y \in S : TRUE IN f[x] + SumOver(S \ {x}, f)

\* C8: the composite of two or more Devices holds as many component entries as
\* the inputs hold in total, and every input component is among them.
C8_MergedKeysUnique ==
    Merged =>
        /\ Cardinality(DOMAIN devices[Composite].components)
             = SumOver(Inputs, [i \in Inputs |-> Cardinality(DOMAIN devices[i].components)])
        /\ \A i \in Inputs : \A k \in DOMAIN devices[i].components :
             \E kk \in DOMAIN devices[Composite].components :
                devices[Composite].components[kk] = devices[i].components[k]

\* Whether a key of input i occurs in another input.
Collides(i) ==
    \E k \in DOMAIN devices[i].components :
        \E j \in Inputs \ {i} : k \in DOMAIN devices[j].components

\* C9: in the composite, the component under key k of input i is found under k
\* when no key of input i occurs in another input, and under i, '-' and k
\* otherwise; two Devices sharing key k give no key k.
C9_MergedKeyNaming ==
    Merged =>
        /\ \A i \in Inputs : \A k \in DOMAIN devices[i].components :
             LET key == IF Collides(i) THEN FormatInt(i) \o "-" \o k ELSE k IN
             /\ key \in DOMAIN devices[Composite].components
             /\ devices[Composite].components[key] = devices[i].components[k]
        /\ Cardinality(Inputs) = 2 =>
             \A k \in DOMAIN devices[0].components \cap DOMAIN devices[1].components :
                k \notin DOMAIN devices[Composite].components

NumCanReceive == Cardinality({i \in Inputs : devices[i].rx_driver # nullExportedState})

NumCanTransmit == Cardinality({i \in Inputs : devices[i].tx_driver # nullExportedState})

\* Inputs with a VFO cell of their own that allows more than one frequency.
NumVariableVfo ==
    Cardinality({i \in Inputs : devices[i].vfo_cell # _stub_vfo
                                 /\ cells[devices[i].vfo_cell].lo # cells[devices[i].vfo_cell].hi})

\* The driver of the single input that has one of the kind, else the sentinel.
SingleDriver(field) ==
    IF \E i \in Inputs : devices[i][field] # nullExportedState
    THEN devices[CHOOSE i \in Inputs : devices[i][field] # nullExportedState][field]
    ELSE nullExportedState

CompositeDrivers ==
    Merged => /\ devices[Composite].rx_driver = SingleDriver("rx_driver")
              /\ devices[Composite].tx_driver = SingleDriver("tx_driver")

\* C10 as stated: merge_devices of two or more Devices raises exactly when more
\* than one input can receive or more than one can transmit; otherwise the
\* composite holds the driver of the single input that has one, or none.
C10_Original ==
    MergeOfSeveral =>
        /\ lastOp.raised <=> (NumCanReceive > 1 \/ NumCanTransmit > 1)
        /\ CompositeDrivers

\* C10 amended: merge_devices of two or more Devices raises exactly when more
\* than one input can receive, more than one can transmit, or more than one
\* tunable input has a VFO that is not fixed; otherwise the composite holds the
\* driver of the single input that has one, or none.
C10_RaisesOnSeveralDrivers ==
    MergeOfSeveral =>
        /\ lastOp.raised <=> (NumCanReceive > 1 \/ NumCanTransmit > 1 \/ NumVariableVfo > 1)
        /\ CompositeDrivers

\* A merge of three Devices of which one can receive and another can transmit.
C10_Witness ==
    /\ Merged /\ Cardinality(Inputs) = 3
    /\ NumCanReceive = 1 /\ NumCanTransmit = 1
    /\ devices[Composite].rx_driver # nullExportedState
    /\ devices[Composite].tx_driver # nullExportedState
    /\ \E i \in Inputs : can_receive(i) /\ ~can_transmit(i)

\* ---- _merge_vfos
RECURSIVE FixedTotalFrom(_, _)
\* The single points of vfoList[j..], added one after the other to acc.
FixedTotalFrom(j, acc) ==
    IF j > Len(vfoList) THEN acc
    ELSE FixedTotalFrom(j + 1,
            IF cells[vfoList[j]].lo = cells[vfoList[j]].hi
            THEN Round(acc + cells[vfoList[j]].lo) ELSE acc)

fixed_total == FixedTotalFrom(1, 0)

VariablePoints == {j \in 1 .. Len(vfoList) : cells[vfoList[j]].lo # cells[vfoList[j]].hi}

MergedVfos == vfoResult # NoCall

\* C11: _merge_vfos follows the decision table on the number of variable
\* points and fixed_total: absent, a new fixed point, the variable point
\* itself, a derived point, or a configuration error.
C11_DecisionTable ==
    MergedVfos =>
        LET nvar == Cardinality(VariablePoints)
            one == vfoList[CHOOSE j \in VariablePoints : TRUE]
        IN
        /\ (nvar = 0 /\ fixed_total = 0)
              => ~vfoResult.raised /\ vfoResult.cell = None
        /\ (nvar = 0 /\ fixed_total # 0)
              => /\ ~vfoResult.raised /\ vfoResult.cell = MergedVfo
                 /\ cells[MergedVfo] =
                      [kind |-> "LooseCell", value |-> fixed_total,
                       lo |-> fixed_total, hi |-> fixed_total,
                       writable |-> FALSE, persists |-> FALSE, base |-> None, shift |-> 0]
        /\ (nvar = 1 /\ fixed_total = 0)
              => /\ ~vfoResult.raised /\ vfoResult.cell = one
                 /\ MergedVfo \notin DOMAIN cells
        /\ (nvar = 1 /\ fixed_total # 0)
              => /\ ~vfoResult.raised /\ vfoResult.cell = MergedVfo
                 /\ cells[MergedVfo].kind = "ViewCell"
                 /\ cells[MergedVfo].base = one
                 /\ cells[MergedVfo].shift = fixed_total
        /\ nvar >= 2 => vfoResult.raised

\* One variable point between the fixed points 5 and -5: the point itself comes back.
C11_Witness ==
    /\ MergedVfos /\ Len(vfoList) = 3
    /\ Cardinality(VariablePoints) = 1 /\ fixed_total = 0
    /\ \E j \in 1 .. 3 : cells[vfoList[j]].lo = 5 /\ cells[vfoList[j]].hi = 5
    /\ vfoResult.cell \in {vfoList[j] : j \in VariablePoints}

\* _merge_vfos returned a derived point.
DerivedPoint ==
    /\ MergedVfos /\ ~vfoResult.raised /\ vfoResult.cell = MergedVfo
    /\ cells[MergedVfo].kind = "ViewCell"

\* A write of x through the derived point that was taken.
WroteDerived ==
    lastWrite # NoCall /\ lastWrite.cell = MergedVfo /\ ~lastWrite.raised

\* C12 as stated: the derived point reads v.get() + f, a write of x stores
\* x - f into v, and a write of x through the derived point is read back as x.
C12_Original ==
    DerivedPoint =>
        LET v == cells[MergedVfo].base
            f == cells[MergedVfo].shift
        IN /\ cell_get(MergedVfo) = Round(cells[v].value + f)
           /\ WroteDerived => cells[v].value = Round(lastWrite.x - f)
           /\ WroteDerived => cell_get(MergedVfo) = lastWrite.x

\* C12 amended: the derived point of v and f = fixed_total # 0 reads
\* v.get() + f after every write, through it or directly into v; a write of x
\* through it stores x - f into v, and is read back as (x - f) + f in float
\* arithmetic, which is x whenever the difference x - f is exact.
C12_DerivedReadWrite ==
    DerivedPoint =>
        LET v == cells[MergedVfo].base
            f == cells[MergedVfo].shift
        IN /\ f = fixed_total /\ f # 0
           /\ v \in {vfoList[j] : j \in VariablePoints}
           /\ cell_get(MergedVfo) = Round(cells[v].value + f)
           /\ WroteDerived =>
                /\ cells[v].value = Round(lastWrite.x - f)
                /\ cell_get(MergedVfo) = Round(Round(lastWrite.x - f) + f)
                /\ Round(lastWrite.x - f) = lastWrite.x - f
                      => cell_get(MergedVfo) = lastWrite.x
           /\ (lastWrite # NoCall /\ lastWrite.cell = v /\ ~lastWrite.raised)
                => cells[v].value = lastWrite.x

\* A write through the derived point that changed v and is read back as written.
C12_Witness ==
    /\ DerivedPoint /\ WroteDerived
    /\ cells[cells[MergedVfo].base].value # 1
    /\ cells[cells[MergedVfo].base].value # 14
    /\ cell_get(MergedVfo) = lastWrite.x

\* C13: the derived point is writable exactly when its base is, and persisted
\* exactly when its base is.
C13_MirrorsBase ==
    DerivedPoint =>
        /\ cells[MergedVfo].writable = cells[cells[MergedVfo].base].writable
        /\ cells[MergedVfo].persists = cells[cells[MergedVfo].base].persists

IsMergeStep == lastOp'.op = "merge_devices"

\* C14: merge_devices of a list of one Device returns that Device itself, and
\* leaves its drivers, components, VFO and transmitting state as they were.
C14_SingleIsIdentity ==
    [][(IsMergeStep /\ Cardinality(Inputs) = 1)
          => /\ ~lastOp'.raised
             /\ lastOp'.result = InputList[1]
             /\ devices' = devices
             /\ cells' = cells
             /\ txState' = txState]_vars

\* merge_devices of one Device that is transmitting and has a component has
\* returned it.
C14_Witness ==
    /\ lastOp.op = "merge_devices" /\ lastOp.result = 0
    /\ DOMAIN devices = {0}
    /\ devices[0].transmitting
    /\ devices[0].components # <<>>
    /\ can_tune(0)

\* C15: merge_devices, whether it returns or raises, leaves every input
\* Device's name, drivers, VFO point, component mapping and transmitting state
\* as they were.
C15_InputsUnchanged ==
    [][IsMergeStep
          => \A d \in Inputs :
                /\ devices'[d] = devices[d]
                /\ cells'[devices[d].vfo_cell] = cells[devices[d].vfo_cell]]_vars

\* merge_devices has built the composite of two Devices, one of them
\* transmitting, with components and a tunable VFO.
C15_Witness ==
    /\ Merged
    /\ Cardinality(Inputs) = 2
    /\ \E d \in Inputs : devices[d].transmitting /\ can_transmit(d)
    /\ \E d \in Inputs : devices[d].components # <<>>
    /\ devices[Composite].vfo_cell = MergedVfo

\* What a Device reports, the frequency aside.
Reports(d) ==
    [can_receive |-> can_receive(d), can_transmit |-> can_transmit(d),
     transmitting |-> devices[d].transmitting,
     components |-> devices[d].components]

\* The cell that holds the value a cell reads.
RootCell(c) == IF cells[c].kind = "ViewCell" THEN cells[c].base ELSE c

\* Two Devices whose VFOs are, or are views of, the same cell.
SharedVfo(d, e) == RootCell(devices[d].vfo_cell) = RootCell(devices[e].vfo_cell)

\* A step of set_freq, set_transmitting or close on Device d.
IsOperationOn(d) ==
    /\ lastOp'.op \in {"set_freq", "set_transmitting", "close"}
    /\ lastOp'.self = d

\* C16 as stated: no set_freq, set_transmitting or close on a composite
\* changes what an input reports (frequency, can_receive, can_transmit,
\* transmitting state, component mapping), nor the other way round.
C16_Original ==
    [][\A d \in DOMAIN devices : \A e \in DOMAIN devices \ {d} :
          (IsOperationOn(d) /\ Composite \in {d, e})
             => /\ Reports(e)' = Reports(e)
                /\ get_freq(e)' = get_freq(e)]_vars

\* C16: an operation on one Device changes of another Device neither
\* can_receive, can_transmit, the transmitting state nor the component
\* mapping, and changes its frequency only when it is a set_freq and the VFOs
\* of the two are, or are views of, the same cell.
C16_SharesOnlyVfo ==
    [][\A d \in DOMAIN devices : \A e \in DOMAIN devices \ {d} :
          IsOperationOn(d)
             => /\ Reports(e)' = Reports(e)
                /\ (get_freq(e)' # get_freq(e))
                      => (lastOp'.op = "set_freq" /\ SharedVfo(d, e))]_vars

\* A set_freq(7) on the composite, whose VFO is a view shifted by 5, has
\* tuned the input to 2.
C16_Witness ==
    /\ lastOp.op = "set_freq" /\ lastOp.self = Composite /\ ~lastOp.raised
    /\ lastWrite.x = 7
    /\ devices[Composite].vfo_cell = MergedVfo
    /\ \E e \in Inputs : SharedVfo(Composite, e) /\ get_freq(e) = 2
    /\ get_freq(Composite) = 7

\* A call of _coerce_channel_mapping on the integer n has finished.
CoercedInt(n) ==
    /\ cmap.op = "_coerce_channel_mapping"
    /\ cmap.arg = IntArg(n)

\* C17 as stated: an integer n >= 1 is coerced to the n-by-n identity
\* matrix; an integer n <= 0 is rejected.
C17_Original ==
    \A n \in -1 .. MaxChannels :
        CoercedInt(n) =>
            IF n <= 0 THEN cmap.raised
            ELSE /\ ~cmap.raised
                 /\ Len(cmap.value) = n
                 /\ \A i \in 1 .. n :
                       /\ Len(cmap.value[i]) = n
                       /\ \A j \in 1 .. n : cmap.value[i][j] = (IF i = j THEN 1 ELSE 0)

\* C17: an integer n >= 1 is coerced to a matrix of one row of n gains, 1 for
\* channel n and 0 for the channels before it; an integer n <= 0 is rejected.
C17_IntSelectsChannel ==
    \A n \in -1 .. MaxChannels :
        CoercedInt(n) =>
            IF n <= 0 THEN cmap.raised
            ELSE /\ ~cmap.raised
                 /\ Len(cmap.value) = 1
                 /\ Len(cmap.value[1]) = n
                 /\ cmap.value[1][n] = 1
                 /\ \A j \in 1 .. (n - 1) : cmap.value[1][j] = 0

\* The coercion of 3 has returned.
C17_Witness == CoercedInt(3) /\ ~cmap.raised /\ Len(cmap.value[1]) = 3

RECURSIVE NamesFrom(_)
\* The names of the inputs d, d + 1, ... that have one, first input first.
NamesFrom(d) ==
    IF d \notin Inputs THEN <<>>
    ELSE (IF devices[d].name = None THEN <<>> ELSE <<devices[d].name>>)
         \o NamesFrom(d + 1)

RECURSIVE PlusJoined(_)
PlusJoined(names) ==
    IF Len(names) = 1 THEN names[1]
    ELSE names[1] \o "+" \o PlusJoined(Tail(names))

\* C18: the composite of two or more Devices is named by the names of the
\* inputs that have one, in input order, joined with "+", and has no name when
\* no input has one.
C18_CompositeName ==
    Merged => devices[Composite].name =
                 (IF NamesFrom(0) = <<>> THEN None ELSE PlusJoined(NamesFrom(0)))

\* The composite of Devices named "B", unnamed and named "A" is named "B+A".
C18_Witness ==
    /\ Merged
    /\ Cardinality(Inputs) = 3
    /\ devices[0].name = "B" /\ devices[1].name = None /\ devices[2].name = "A"
    /\ devices[Composite].name = "B+A"

\* C19: after fork_deferred(d), d2 has fired exactly when d has, with the
\* outcome d fired with; and whatever the callbacks and errbacks added to d2
\* return or raise, d keeps that outcome and hands it to its later callbacks.
C19_ForkIsolatesD ==
    (dfr.op = "deferred" /\ dfr.forked)
        => /\ dfr.d2.called <=> dfr.d.called
           /\ dfr.d2.called => dfr.fired2 = dfr.fired
           /\ dfr.d.called => dfr.d.result = dfr.fired
           /\ \A i \in 1 .. Len(dfr.seen) : dfr.seen[i] = dfr.fired

\* d failed; an errback added to d2 turned the failure into a value, and a
\* later callback of d was handed the failure.
C19_Witness ==
    /\ dfr.op = "deferred" /\ dfr.forked
    /\ dfr.fired = Failure("e")
    /\ dfr.fired2 = Failure("e")
    /\ dfr.d2.result.kind = "value"
    /\ dfr.added = MaxCallbacks
    /\ Len(dfr.seen) >= 1

\* C20: when the transmit driver's set_transmitting raises during a genuine
\* transition, the Device's transmitting state keeps the value it had before
\* the call (so that the same request made again calls the driver again).
C20_FailedTransitionKeepsState ==
    (IsSetTransmitting /\ lastOp.raised)
        => devices[lastOp.self].transmitting = lastOp.pre_transmitting

\* The objects whose close() returned in the close() call of this step.
ClosedInStep ==
    {lastOp'.calls[i].obj : i \in 1 .. (Len(lastOp'.calls) - 1)}

\* The reference a failed close() leaves where it found the object obj.
LeftByFailedClose(obj) ==
    IF obj \in ClosedInStep THEN nullExportedState ELSE obj

\* C21: when a close() call made by Device.close() fails, the failure reaches
\* the caller at once: the receive driver is called before the transmit
\* driver and the drivers before the components, the failing call is the last
\* one made, the references of the objects closed before it are cleared, and
\* the reference of the failing object and of every object not yet closed is
\* left as it was (can_receive() stays true when the receive driver fails).
C21_FailedCloseStopsAtOnce ==
    [][(lastOp'.op = "close" /\ lastOp'.raised)
          => LET d == lastOp'.self
                 dev == devices[d]
                 drivers == close_driver_calls(dev)
                 made == lastOp'.calls
             IN /\ Len(made) >= 1
                /\ \A i \in 1 .. Len(made) :
                      i <= Len(drivers) => made[i].obj = drivers[i].obj
                /\ \A i \in 1 .. Len(made) :
                      i > Len(drivers) =>
                         \E k \in DOMAIN dev.components : dev.components[k] = made[i].obj
                /\ devices'[d].rx_driver = LeftByFailedClose(dev.rx_driver)
                /\ devices'[d].tx_driver = LeftByFailedClose(dev.tx_driver)
                /\ DOMAIN devices'[d].components = DOMAIN dev.components
                /\ \A k \in DOMAIN dev.components :
                      devices'[d].components[k] = LeftByFailedClose(dev.components[k])
                /\ (can_receive(d) /\ made[Len(made)].obj = dev.rx_driver)
                      => devices'[d].rx_driver # nullExportedState
                /\ devices'[d].transmitting = dev.transmitting]_vars

\* A close() that failed at the transmit driver: the receive driver is
\* cleared, the transmit driver and both components are not.
C21_Witness ==
    /\ lastOp.op = "close" /\ lastOp.raised
    /\ Len(lastOp.calls) = 2
    /\ lastOp.calls[1].obj = RxDriverOf(0)
    /\ lastOp.calls[2].obj = TxDriverOf(0)
    /\ ~can_receive(0) /\ can_transmit(0)
    /\ devices[0].components = [k \in {"k", "a"} |-> ComponentOf(0, k)]

\* The cells of the list that merge_devices hands to _merge_vfos.
MergedVfoCells ==
    {merge_vfo_cells(InputList)[j] : j \in 1 .. Len(merge_vfo_cells(InputList))}

\* C22: of the composite of two or more Devices: if it can tune, an input can
\* tune; the Devices whose VFO is the sentinel are left out of the list given
\* to the frequency merge and the others are in it; and when no input can
\* tune, its VFO is the sentinel, it cannot tune, and its frequency is 0.
C22_CompositeTunesOnlyIfInputDoes ==
    Merged
        => /\ can_tune(Composite) => \E d \in Inputs : can_tune(d)
           /\ _stub_vfo \notin MergedVfoCells
           /\ \A d \in Inputs : can_tune(d) <=> devices[d].vfo_cell \in MergedVfoCells
           /\ (\A d \in Inputs : ~can_tune(d))
                 => /\ devices[Composite].vfo_cell = _stub_vfo
                    /\ ~can_tune(Composite)
                    /\ get_freq(Composite) = 0

\* The composite of a Device without a VFO, a tunable one and a frequency
\* shift can tune.
C22_Witness ==
    /\ Merged
    /\ Cardinality(Inputs) = 3
    /\ \E d \in Inputs : ~can_tune(d)
    /\ \E d \in Inputs : can_tune(d) /\ ~has_single_point(cells[devices[d].vfo_cell])
    /\ \E d \in Inputs : can_tune(d) /\ has_single_point(cells[devices[d].vfo_cell])
    /\ can_tune(Composite)
    /\ get_freq(Composite) = 6

====
